---- MODULE Spec2Model ----
(***************************************************************************)
(* A state-machine model of QHexView (src/qhexview.cpp, src/qhexview.h):   *)
(* the selection, the scroll window, the layout and the widths, with one   *)
(* action per event handler or public slot.                                *)
(*                                                                         *)
(* Integer arithmetic follows C++: division truncates toward zero.  A      *)
(* division by zero is undefined behaviour: the handler either traps       *)
(* (halted becomes TRUE and nothing runs afterwards) or goes on with       *)
(* quotient 0 and remainder equal to the dividend, which is what a build   *)
(* for a target whose divide instruction does not trap computes.  A call   *)
(* through the null document pointer traps.                                *)
(***************************************************************************)
EXTENDS Integers, Sequences, FiniteSets, TLC

(***************************************************************************)
(* Bounds of the model.                                                    *)
(***************************************************************************)
\* documents have 0 .. MaxDataSize bytes
MaxDataSize == 3
\* rows are 1 .. MaxRowWidth words wide (0 .. MaxRowWidth under SpecWidths)
MaxRowWidth == 2
\* viewports are 0, MaxViewRows or 2 * MaxViewRows pixels high under SpecBars
MaxViewRows == 3
\* and MaxViewCols \div 3 or MaxViewCols pixels wide
MaxViewCols == 24
\* character cells are 1 .. MaxCharWidth pixels wide in the layout specification
MaxCharWidth == 3
\* a drag may leave the viewport by up to MaxOutside pixels above it
MaxOutside == 1
\* keyboard extension is followed while the selection stays >= -MaxUnder
MaxUnder == 2
\* largest document of the painting and export specifications, in bytes
MaxDocSize == 5

\* word widths the context menu offers (createStandardContextMenu)
MenuWordWidths == {1, 2, 4, 8}
\* the word widths of the selection and scrolling specifications
WordWidths == {1, 2}
\* QFontMetrics of the widget's font in the selection and scrolling
\* specifications: width('X') and height()
SpecFont == [width |-> 1, height |-> 1]
\* the viewport of the selection and scrolling specifications: wide enough for
\* every column, two rows high
SpecView == [width |-> 64, height |-> 2]

(***************************************************************************)
(* C++ helpers.                                                            *)
(***************************************************************************)
Abs(a) == IF a < 0 THEN -a ELSE a

Min(a, b) == IF a < b THEN a ELSE b

Max(a, b) == IF a > b THEN a ELSE b

\* a / b on C++ ints: truncation toward zero; with b = 0 the non-trapping outcome
CDiv(a, b) ==
    IF b = 0 THEN 0
    ELSE IF (a >= 0) = (b > 0) THEN Abs(a) \div Abs(b)
    ELSE -(Abs(a) \div Abs(b))

\* a % b on C++ ints: the sign follows the dividend; with b = 0 the dividend
CMod(a, b) == a - b * CDiv(a, b)

\* qBound(lo, v, hi)
qBound(lo, v, hi) == Max(lo, Min(hi, v))

(***************************************************************************)
(* State.                                                                  *)
(***************************************************************************)
VARIABLES
    data_,                   \* NullDevice, or the size of the document data_ points to
    selection_start_,
    selection_end_,
    origin_,
    vsbValue, vsbMax,        \* verticalScrollBar(): value() and maximum()
    hsbValue, hsbMax,        \* horizontalScrollBar(): value() and maximum()
    row_width_,
    word_width_,
    show_address_,
    show_hex_,
    show_ascii_,
    show_address_separator_,
    address_size_,
    font_width_,
    font_height_,
    vpWidth, vpHeight,       \* viewport()->width(), viewport()->height()
    highlighting_,
    leftButtonDown,          \* the left mouse button is held (history)
    halted,                  \* the process has trapped
    lastOp,                  \* the handler that ran last (history)
    lastArg,                 \* its argument if scrollTo, setData or a width setter;
                             \* the origin_ it found if paintEvent
    row_data,                \* the bytes of the row read last, each 0 .. 255
    address,                 \* the address formatted last, as 16-bit limbs, low limb first
    text                     \* the characters formatBytes or formatAddress wrote last

selVars == <<selection_start_, selection_end_>>
barVars == <<vsbValue, vsbMax, hsbValue, hsbMax>>
widthVars == <<row_width_, word_width_>>
showVars == <<show_address_, show_hex_, show_ascii_, show_address_separator_, address_size_>>
fontVars == <<font_width_, font_height_>>
vpVars == <<vpWidth, vpHeight>>
cfgVars == <<widthVars, showVars, fontVars, vpVars>>

fmtVars == <<row_data, address, text>>

vars ==
    <<data_, selVars, origin_, barVars, cfgVars, highlighting_, leftButtonDown, halted,
      lastOp, lastArg, fmtVars>>

\* the handler op runs, with argument arg
ran(op, arg) ==
    /\ lastOp' = op
    /\ lastArg' = arg
    /\ leftButtonDown' =
          IF op \in {"mousePressEvent", "mouseDoubleClickEvent"} THEN TRUE
          ELSE IF op = "mouseReleaseEvent" THEN FALSE
          ELSE leftButtonDown
    /\ UNCHANGED fmtVars

\* data_ == nullptr
NullDevice == -1

Address32 == 4

Address64 == 8

CHAR_BIT == 8

(***************************************************************************)
(* Queries and layout (const member functions).                            *)
(***************************************************************************)
dataSize == IF data_ # NullDevice THEN data_ ELSE 0

bytesPerRow == row_width_ * word_width_

charsPerWord == word_width_ * 2

addressLen ==
    LET addressLength == CDiv(address_size_ * CHAR_BIT, 4)
    IN  addressLength + (IF show_address_separator_ THEN 1 ELSE 0)

vertline1 ==
    IF show_address_
    THEN LET elements == addressLen
         IN  (elements * font_width_) + CDiv(font_width_, 2)
    ELSE 0

hexDumpLeft == vertline1 + CDiv(font_width_, 2)

\* vertline2 returning 0, as vertline1 does, when its column is hidden
vertline2ZeroWhenHidden ==
    IF show_hex_
    THEN LET elements == row_width_ * (charsPerWord + 1) - 1
         IN  hexDumpLeft + (elements * font_width_) + CDiv(font_width_, 2)
    ELSE 0

vertline2 ==
    IF show_hex_
    THEN LET elements == row_width_ * (charsPerWord + 1) - 1
         IN  hexDumpLeft + (elements * font_width_) + CDiv(font_width_, 2)
    ELSE vertline1

asciiDumpLeft == vertline2 + CDiv(font_width_, 2)

vertline3 ==
    IF show_ascii_
    THEN LET elements == bytesPerRow
         IN  asciiDumpLeft + (elements * font_width_) + CDiv(font_width_, 2)
    ELSE vertline2

commentLeft == vertline3 + CDiv(font_width_, 2)

hasSelectedText == ~(selection_start_ = -1 \/ selection_end_ = -1)

\* isSelected with the upper end of the range included
isSelectedEndInclusive(index) ==
    IF index < dataSize
    THEN IF selection_start_ # selection_end_
         THEN IF selection_start_ < selection_end_
              THEN index >= selection_start_ /\ index <= selection_end_
              ELSE index >= selection_end_ /\ index <= selection_start_
         ELSE FALSE
    ELSE FALSE

isSelected(index) ==
    IF index < dataSize
    THEN IF selection_start_ # selection_end_
         THEN IF selection_start_ < selection_end_
              THEN index >= selection_start_ /\ index < selection_end_
              ELSE index >= selection_end_ /\ index < selection_start_
         ELSE FALSE
    ELSE FALSE

selectedBytesSize ==
    IF selection_end_ > selection_start_
    THEN selection_end_ - selection_start_
    ELSE selection_start_ - selection_end_

normalizedOffset ==
    LET offset == vsbValue * bytesPerRow
    IN  IF origin_ # 0 /\ offset > 0
        THEN offset + origin_ - bytesPerRow
        ELSE offset

(***************************************************************************)
(* Scroll bars.                                                            *)
(***************************************************************************)
\* verticalMaximum without the row a partial last row takes
verticalMaximumWholeRows ==
    LET sz     == dataSize
        bpr    == bytesPerRow
        maxval == CDiv(sz, bpr) - CDiv(vpHeight, font_height_)
    IN  Max(0, maxval)

\* the argument of verticalScrollBar()->setMaximum in updateScrollbars
verticalMaximum ==
    LET sz     == dataSize
        bpr    == bytesPerRow
        maxval == CDiv(sz, bpr) + (IF CMod(sz, bpr) # 0 THEN 1 ELSE 0)
                    - CDiv(vpHeight, font_height_)
    IN  Max(0, maxval)

\* the argument of horizontalScrollBar()->setMaximum in updateScrollbars
horizontalMaximum == Max(0, CDiv(vertline3 - vpWidth, font_width_))

\* updateScrollbars() followed by verticalScrollBar()->setValue(value), on the
\* fields as the handler has set them (the primed ones).  QAbstractSlider keeps
\* value() inside [minimum(), maximum()] in setMaximum and in setValue.
updateScrollbarsThenSetValue(value) ==
    /\ vsbMax' = verticalMaximum'
    /\ hsbMax' = horizontalMaximum'
    /\ vsbValue' = qBound(0, value, vsbMax')
    /\ hsbValue' = qBound(0, hsbValue, hsbMax')

updateScrollbars == updateScrollbarsThenSetValue(vsbValue)

\* updateScrollbars() in a handler that may have made bytesPerRow() zero: the
\* division sz / bpr traps, or yields 0 where the divide instruction does not trap
updateScrollbarsOrTrap ==
    \/ /\ bytesPerRow' = 0
       /\ halted' = TRUE
       /\ UNCHANGED barVars
    \/ /\ halted' = FALSE
       /\ updateScrollbars

(***************************************************************************)
(* Slots and setters.                                                      *)
(***************************************************************************)
\* Q_ASSERT(rowWidth >= 0) passes for every width the model draws (all are >= 0)
setRowWidth(rowWidth) ==
    /\ ~halted
    /\ row_width_' = rowWidth
    /\ UNCHANGED <<data_, selVars, origin_, word_width_, showVars, fontVars, vpVars,
                   highlighting_>>
    /\ updateScrollbarsOrTrap
    /\ ran("setRowWidth", rowWidth)

\* Q_ASSERT(wordWidth >= 0) passes for every width the model draws (all are >= 0)
setWordWidth(wordWidth) ==
    /\ ~halted
    /\ word_width_' = wordWidth
    /\ UNCHANGED <<data_, selVars, origin_, row_width_, showVars, fontVars, vpVars,
                   highlighting_>>
    /\ updateScrollbarsOrTrap
    /\ ran("setWordWidth", wordWidth)

setShowAddress(show) ==
    /\ ~halted
    /\ show_address_' = show
    /\ UNCHANGED <<data_, selVars, origin_, widthVars, show_hex_, show_ascii_,
                   show_address_separator_, address_size_, fontVars, vpVars,
                   highlighting_>>
    /\ updateScrollbarsOrTrap
    /\ ran("setShowAddress", 0)

setShowHexDump(show) ==
    /\ ~halted
    /\ show_hex_' = show
    /\ UNCHANGED <<data_, selVars, origin_, widthVars, show_address_, show_ascii_,
                   show_address_separator_, address_size_, fontVars, vpVars,
                   highlighting_>>
    /\ updateScrollbarsOrTrap
    /\ ran("setShowHexDump", 0)

setShowAsciiDump(show) ==
    /\ ~halted
    /\ show_ascii_' = show
    /\ UNCHANGED <<data_, selVars, origin_, widthVars, show_address_, show_hex_,
                   show_address_separator_, address_size_, fontVars, vpVars,
                   highlighting_>>
    /\ updateScrollbarsOrTrap
    /\ ran("setShowAsciiDump", 0)

setShowAddressSeparator(value) ==
    /\ ~halted
    /\ show_address_separator_' = value
    /\ UNCHANGED <<data_, selVars, origin_, widthVars, show_address_, show_hex_,
                   show_ascii_, address_size_, fontVars, vpVars, highlighting_>>
    /\ updateScrollbarsOrTrap
    /\ ran("setShowAddressSeparator", 0)

\* only viewport()->update(): the scroll bars are not recomputed
setAddressSize(address_size) ==
    /\ ~halted
    /\ address_size_' = address_size
    /\ UNCHANGED <<data_, selVars, origin_, barVars, widthVars, show_address_, show_hex_,
                   show_ascii_, show_address_separator_, fontVars, vpVars,
                   highlighting_, halted>>
    /\ ran("setAddressSize", 0)

\* fm.width('X') and fm.height() of the new font are the inputs
setFont(width, height) ==
    /\ ~halted
    /\ font_width_' = width
    /\ font_height_' = height
    /\ UNCHANGED <<data_, selVars, origin_, widthVars, showVars, vpVars, highlighting_>>
    /\ updateScrollbarsOrTrap
    /\ ran("setFont", 0)

\* the viewport has the new size when the handler runs
resizeEvent(width, height) ==
    /\ ~halted
    /\ vpWidth' = width
    /\ vpHeight' = height
    /\ UNCHANGED <<data_, selVars, origin_, widthVars, showVars, fontVars, highlighting_>>
    /\ updateScrollbarsOrTrap
    /\ ran("resizeEvent", 0)

\* deselect resetting only selection_end_
deselectEndOnly ==
    /\ selection_end_' = -1
    /\ UNCHANGED selection_start_

deselect ==
    /\ selection_start_' = -1
    /\ selection_end_' = -1

\* d is a device of `size` bytes: data_ points to it, or to the internal buffer
\* holding its readAll() when it is sequential or empty.  Sizes above 0xffffffff,
\* which switch address_size_ to Address64, are beyond MaxDataSize.
setData(size) ==
    /\ ~halted
    /\ data_' = size
    /\ deselect
    /\ UNCHANGED <<origin_, cfgVars, highlighting_>>
    /\ updateScrollbarsOrTrap
    /\ ran("setData", size)

clear ==
    /\ ~halted
    /\ data_' = NullDevice
    /\ UNCHANGED <<selVars, origin_, barVars, cfgVars, highlighting_, halted>>
    /\ ran("clear", 0)

\* selectAll ending at the last byte instead of one past it
selectAllToLastByte ==
    /\ selection_start_' = 0
    /\ selection_end_' = dataSize - 1

selectAll ==
    /\ selection_start_' = 0
    /\ selection_end_' = dataSize

\* the public slot selectAll()
selectAllSlot ==
    /\ ~halted
    /\ selectAll
    /\ UNCHANGED <<data_, origin_, barVars, cfgVars, highlighting_, halted>>
    /\ ran("selectAll", 0)

\* the public slot deselect()
deselectSlot ==
    /\ ~halted
    /\ deselect
    /\ UNCHANGED <<data_, origin_, barVars, cfgVars, highlighting_, halted>>
    /\ ran("deselect", 0)

(***************************************************************************)
(* scrollTo.  Its argument is an address_t (uint64_t): a negative number o *)
(* of the model stands for the wrapped value 2^64 + o, which                *)
(* scrollTo(dataSize() - bytesPerRow()) passes for a document shorter than *)
(* a row.  The wrapped value is divided limb by limb (base 2^16), and the  *)
(* row is converted to the int of QScrollBar::setValue (its low 32 bits).  *)
(***************************************************************************)
Limb == 65536

\* <<quotient modulo 2^32 as <<high limb, low limb>>, remainder>> of (2^64 + o) / d
wrappedDivMod(o, d) ==
    LET c3 == Limb - 1
        c2 == (c3 % d) * Limb + (Limb - 1)
        c1 == (c2 % d) * Limb + (Limb - 1)
        c0 == (c1 % d) * Limb + (Limb + o)
    IN  <<(c1 \div d) % Limb, (c0 \div d) % Limb, c0 % d>>

\* origin_ = offset % bpr
scrollToOrigin(offset, bpr) ==
    IF offset >= 0 THEN CMod(offset, bpr) ELSE wrappedDivMod(offset, bpr)[3]

\* scrollToRow without the increment for a row that starts mid-row
scrollToRowNoIncrement(offset, bpr) ==
    IF offset >= 0
    THEN CDiv(offset, bpr)
    ELSE LET q  == wrappedDivMod(offset, bpr)
         IN  IF q[1] >= Limb \div 2 THEN (q[1] - Limb) * Limb + q[2] ELSE q[1] * Limb + q[2]

\* offset / bpr, incremented when origin_ != 0, as the int passed to setValue
scrollToRow(offset, bpr) ==
    LET inc == IF scrollToOrigin(offset, bpr) # 0 THEN 1 ELSE 0
    IN  IF offset >= 0
        THEN CDiv(offset, bpr) + inc
        ELSE LET q     == wrappedDivMod(offset, bpr)
                 lo    == (q[2] + inc) % Limb
                 carry == (q[2] + inc) \div Limb
                 hi    == (q[1] + carry) % Limb
             IN  IF hi >= Limb \div 2 THEN (hi - Limb) * Limb + lo ELSE hi * Limb + lo

scrollTo(offset) ==
    \/ /\ bytesPerRow = 0
       /\ halted' = TRUE
       /\ UNCHANGED <<origin_, barVars>>
    \/ /\ halted' = FALSE
       /\ origin_' = scrollToOrigin(offset, bytesPerRow)
       /\ updateScrollbarsThenSetValue(scrollToRow(offset, bytesPerRow))

\* the public scrollTo(offset)
scrollToCall(offset) ==
    /\ ~halted
    /\ UNCHANGED <<data_, selVars, cfgVars, highlighting_>>
    /\ scrollTo(offset)
    /\ ran("scrollTo", offset)

\* the user moves the vertical scroll bar (wheel, slider, default key handling)
verticalScroll(value) ==
    /\ ~halted
    /\ vsbValue' = value
    /\ UNCHANGED <<data_, selVars, origin_, vsbMax, hsbValue, hsbMax, cfgVars,
                   highlighting_, halted>>
    /\ ran("verticalScroll", 0)

\* the user moves the horizontal scroll bar
horizontalScroll(value) ==
    /\ ~halted
    /\ hsbValue' = value
    /\ UNCHANGED <<data_, selVars, origin_, vsbValue, vsbMax, hsbMax, cfgVars,
                   highlighting_, halted>>
    /\ ran("horizontalScroll", 0)

(***************************************************************************)
(* paintEvent: its effect on the widget's fields.                          *)
(***************************************************************************)
\* paintEvent drawing from whatever origin_ it finds
paintEventKeepsOrigin ==
    /\ ~halted
    /\ UNCHANGED <<data_, selVars, cfgVars, highlighting_>>
    /\ UNCHANGED <<origin_, barVars, halted>>
    /\ ran("paintEvent", origin_)

paintEvent ==
    /\ ~halted
    /\ UNCHANGED <<data_, selVars, cfgVars, highlighting_>>
    /\ LET chars_per_row == bytesPerRow
           offset        == vsbValue * chars_per_row
       IN  IF origin_ # 0 /\ ~(offset > 0)
           THEN /\ origin_' = 0
                /\ updateScrollbarsOrTrap
           ELSE UNCHANGED <<origin_, barVars, halted>>
    /\ ran("paintEvent", origin_)

\* height(), the height paintEvent's row loop compares against (a frameless
\* widget whose viewport fills it)
widgetHeight == vpHeight

\* the rows paintEvent's loop draws, numbered from the top of the viewport:
\* row r is entered while r * font_height_ + font_height_ < height() and its
\* first byte lies inside the document
drawnRows ==
    {r \in 0 .. MaxViewRows * 2 :
        /\ r * font_height_ + font_height_ < widgetHeight
        /\ normalizedOffset + r * bytesPerRow < dataSize}

\* offset of the first byte of drawn row r
rowOffset(r) == normalizedOffset + r * bytesPerRow

\* drawHexDump testing the start of a word, not its end, against the size
drawnWordsByStart(offset) ==
    {i \in 0 .. (row_width_ - 1) : offset + (i * word_width_) < dataSize}

\* drawHexDump: the words i of the row at offset it formats and draws
drawnWords(offset) ==
    {i \in 0 .. (row_width_ - 1) : offset + (i * word_width_) + word_width_ <= dataSize}

\* drawHexDump: drawLeft and drawWidth of word i
hexDrawLeft(i) == hexDumpLeft + (i * (charsPerWord + 1) * font_width_)

hexDrawWidth == charsPerWord * font_width_

\* drawAsciiDump: the bytes i of the row at offset it draws
drawnBytes(offset) ==
    {i \in 0 .. (bytesPerRow - 1) : offset + i < dataSize}

\* drawAsciiDump: drawLeft of byte i (its cell is font_width_ wide)
asciiDrawLeft(i) == asciiDumpLeft + i * font_width_

(***************************************************************************)
(* keyPressEvent, one action per branch.                                   *)
(***************************************************************************)
keySelectAll ==
    /\ ~halted
    /\ selectAll
    /\ UNCHANGED <<data_, origin_, barVars, cfgVars, highlighting_, halted>>
    /\ ran("keySelectAll", 0)

keyMoveToStartOfDocument ==
    /\ ~halted
    /\ UNCHANGED <<data_, selVars, cfgVars, highlighting_>>
    /\ scrollTo(0)
    /\ ran("keyMoveToStartOfDocument", 0)

keyMoveToEndOfDocument ==
    /\ ~halted
    /\ UNCHANGED <<data_, selVars, cfgVars, highlighting_>>
    /\ scrollTo(dataSize - bytesPerRow)
    /\ ran("keyMoveToEndOfDocument", 0)

keyCtrlDown ==
    /\ ~halted
    /\ UNCHANGED <<data_, selVars, cfgVars, highlighting_>>
    /\ LET offset == normalizedOffset
       IN  IF offset + 1 < dataSize
           THEN scrollTo(offset + 1)
           ELSE UNCHANGED <<origin_, barVars, halted>>
    /\ ran("keyCtrlDown", 0)

keyCtrlUp ==
    /\ ~halted
    /\ UNCHANGED <<data_, selVars, cfgVars, highlighting_>>
    /\ LET offset == normalizedOffset
       IN  IF offset > 0
           THEN scrollTo(offset - 1)
           ELSE UNCHANGED <<origin_, barVars, halted>>
    /\ ran("keyCtrlUp", 0)

\* case Qt::Key_Right: selection_start_ after the branch
shiftRightStart ==
    IF selection_start_ = selection_end_
    THEN selection_start_ - word_width_
    ELSE selection_start_

\* Key_Right extending the end without looking at the document size
shiftRightEndUnclamped == selection_end_ + word_width_

\* case Qt::Key_Right: selection_end_ after the branch
shiftRightEnd ==
    IF CDiv(selection_end_, word_width_) < dataSize
    THEN selection_end_ + word_width_
    ELSE selection_end_

\* Key_Left taking every selection that reaches past its start for a one-word
\* selection
shiftLeftCollapsesAlways == (selection_end_ - word_width_) >= selection_start_

\* case Qt::Key_Left: the selection is one word long, end after start
shiftLeftCollapses == (selection_end_ - word_width_) = selection_start_

\* case Qt::Key_Left: selection_start_ after the branch
shiftLeftStart ==
    IF shiftLeftCollapses THEN selection_start_ + word_width_ ELSE selection_start_

\* Key_Left without the second step: the end of a collapsed selection stays
\* where the collapse put it
shiftLeftEndSingleStep ==
    IF shiftLeftCollapses
    THEN selection_end_ - word_width_
    ELSE IF CDiv(selection_end_, word_width_) > 0
         THEN selection_end_ - word_width_
         ELSE selection_end_

\* case Qt::Key_Left: selection_end_ after the branch
shiftLeftEnd ==
    LET end == IF shiftLeftCollapses
               THEN selection_end_ - word_width_
               ELSE selection_end_
    IN  IF CDiv(end, word_width_) > 0 THEN end - word_width_ ELSE end

\* the branch for a key with Shift, without Control, while hasSelectedText()
keyShift(dir) ==
    /\ ~halted
    /\ hasSelectedText
    /\ UNCHANGED <<data_, origin_, barVars, cfgVars, highlighting_>>
    /\ ran(dir, 0)
    /\ \/ /\ dir \in {"Key_Right", "Key_Left"}
          /\ word_width_ = 0
          /\ halted' = TRUE
          /\ UNCHANGED selVars
       \/ /\ halted' = FALSE
          /\ CASE dir = "Key_Right" ->
                    /\ selection_start_' = shiftRightStart
                    /\ selection_end_' = shiftRightEnd
               [] dir = "Key_Left" ->
                    /\ selection_start_' = shiftLeftStart
                    /\ selection_end_' = shiftLeftEnd
               [] dir = "Key_Down" ->
                    /\ selection_end_' =
                          Min(selection_end_ + row_width_, dataSize * word_width_)
                    /\ UNCHANGED selection_start_
               [] dir = "Key_Up" ->
                    /\ selection_start_' =
                          IF (selection_end_ - word_width_) = selection_start_
                          THEN selection_start_ + word_width_
                          ELSE selection_start_
                    /\ selection_end_' = selection_end_ - row_width_
          \* the model follows the selection down to -MaxUnder
          /\ selection_start_' >= -MaxUnder
          /\ selection_end_' >= -MaxUnder

(***************************************************************************)
(* Mouse handlers.                                                         *)
(***************************************************************************)
\* pixelToWord dividing the character column by charsPerWord(), the space
\* between two words forgotten
pixelToWordNoGap(mode, x, y) ==
    LET col ==
            IF mode = "Data"
            THEN LET bounded == qBound(vertline1, x, vertline2 + font_width_)
                     rel     == bounded - vertline1
                     chars   == CDiv(rel, font_width_)
                                  + (IF CMod(rel, font_width_) >= CDiv(font_width_, 2)
                                     THEN 1 ELSE 0)
                 IN  CDiv(chars, charsPerWord)
            ELSE LET bounded == qBound(asciiDumpLeft, x, vertline3)
                     rel     == bounded - asciiDumpLeft
                     chars   == CDiv(rel, font_width_)
                 IN  CDiv(chars, word_width_)
        row == CDiv(y, font_height_)
        start_offset ==
            CDiv(normalizedOffset, word_width_)
              + (IF CMod(origin_, word_width_) # 0 THEN 1 ELSE 0)
    IN  ((row * row_width_) + col) + start_offset

\* pixelToWord keeping the word column inside the row
pixelToWordInsideRow(mode, x, y) ==
    LET col ==
            IF mode = "Data"
            THEN LET bounded == qBound(vertline1, x, vertline2 + font_width_)
                     rel     == bounded - vertline1
                     chars   == CDiv(rel, font_width_)
                                  + (IF CMod(rel, font_width_) >= CDiv(font_width_, 2)
                                     THEN 1 ELSE 0)
                 IN  Min(CDiv(chars, charsPerWord + 1), row_width_ - 1)
            ELSE LET bounded == qBound(asciiDumpLeft, x, vertline3)
                     rel     == bounded - asciiDumpLeft
                     chars   == CDiv(rel, font_width_)
                 IN  CDiv(chars, word_width_)
        row == CDiv(y, font_height_)
        start_offset ==
            CDiv(normalizedOffset, word_width_)
              + (IF CMod(origin_, word_width_) # 0 THEN 1 ELSE 0)
    IN  ((row * row_width_) + col) + start_offset

\* pixelToWord(x, y) with highlighting_ = mode
pixelToWord(mode, x, y) ==
    LET col ==
            IF mode = "Data"
            THEN LET bounded == qBound(vertline1, x, vertline2 + font_width_)
                     rel     == bounded - vertline1
                     chars   == CDiv(rel, font_width_)
                                  + (IF CMod(rel, font_width_) >= CDiv(font_width_, 2)
                                     THEN 1 ELSE 0)
                 IN  CDiv(chars, charsPerWord + 1)
            ELSE LET bounded == qBound(asciiDumpLeft, x, vertline3)
                     rel     == bounded - asciiDumpLeft
                     chars   == CDiv(rel, font_width_)
                 IN  CDiv(chars, word_width_)
        row == CDiv(y, font_height_)
        start_offset ==
            CDiv(normalizedOffset, word_width_)
              + (IF CMod(origin_, word_width_) # 0 THEN 1 ELSE 0)
    IN  ((row * row_width_) + col) + start_offset

\* the byte offset the mouse handlers derive from a word index
byteOffsetOf(offset) ==
    LET byte_offset == offset * word_width_
    IN  IF origin_ # 0 /\ CMod(origin_, word_width_) # 0
        THEN byte_offset - (word_width_ - CMod(origin_, word_width_))
        ELSE byte_offset

\* updateToolTip() reaches data_->seek() in selectedBytes() with data_ == nullptr
toolTipDerefsNull ==
    /\ selectedBytesSize > 0
    /\ hasSelectedText
    /\ data_ = NullDevice

\* event->x() + horizontalScrollBar()->value() * font_width_
contentX(ex) == ex + hsbValue * font_width_

\* mousePressEvent starting a new selection whether or not Shift is held
mousePressEventShiftIgnored(ex, y, shift) ==
    /\ ~halted
    /\ UNCHANGED <<data_, origin_, barVars, cfgVars>>
    /\ ran("mousePressEvent", 0)
    /\ \/ /\ word_width_ = 0
          /\ halted' = TRUE
          /\ UNCHANGED <<selVars, highlighting_>>
       \/ LET x           == contentX(ex)
              mode        == IF x < vertline2 THEN "Data" ELSE "Ascii"
              offset      == pixelToWord(mode, x, y)
              byte_offset == byteOffsetOf(offset)
          IN  /\ highlighting_' = mode
              /\ IF offset < dataSize
                 THEN /\ selection_start_' = byte_offset
                      /\ selection_end_' = byte_offset + word_width_
                 ELSE /\ selection_start_' = -1
                      /\ selection_end_' = -1
              /\ halted' = toolTipDerefsNull'

\* a left-button press at viewport pixel (ex, y), with or without Shift
mousePressEvent(ex, y, shift) ==
    /\ ~halted
    /\ UNCHANGED <<data_, origin_, barVars, cfgVars>>
    /\ ran("mousePressEvent", 0)
    /\ \/ /\ word_width_ = 0
          /\ halted' = TRUE
          /\ UNCHANGED <<selVars, highlighting_>>
       \/ LET x           == contentX(ex)
              mode        == IF x < vertline2 THEN "Data" ELSE "Ascii"
              offset      == pixelToWord(mode, x, y)
              byte_offset == byteOffsetOf(offset)
          IN  /\ highlighting_' = mode
              /\ IF offset < dataSize
                 THEN IF hasSelectedText /\ shift
                      THEN /\ selection_end_' = byte_offset
                           /\ UNCHANGED selection_start_
                      ELSE /\ selection_start_' = byte_offset
                           /\ selection_end_' = byte_offset + word_width_
                 ELSE /\ selection_start_' = -1
                      /\ selection_end_' = -1
              /\ halted' = toolTipDerefsNull'

\* a left-button double click at viewport pixel (ex, y)
mouseDoubleClickEvent(ex, y) ==
    /\ ~halted
    /\ UNCHANGED <<data_, origin_, barVars, cfgVars>>
    /\ ran("mouseDoubleClickEvent", 0)
    /\ LET x == contentX(ex)
       IN  IF x < vertline2
           THEN \/ /\ word_width_ = 0
                   /\ halted' = TRUE
                   /\ UNCHANGED <<selVars, highlighting_>>
                \/ LET offset == IF x >= vertline1
                                 THEN pixelToWord("Data", x, y)
                                 ELSE pixelToWord("Data", vertline1, y)
                       byte_offset == byteOffsetOf(offset)
                   IN  /\ highlighting_' = "Data"
                       /\ selection_start_' = byte_offset
                       /\ selection_end_' =
                             IF x >= vertline1
                             THEN byte_offset + word_width_
                             ELSE byte_offset + bytesPerRow
                       /\ halted' = toolTipDerefsNull'
           ELSE /\ UNCHANGED <<selVars, highlighting_>>
                /\ halted' = toolTipDerefsNull'

\* a mouse move to viewport pixel (ex, y)
mouseMoveEvent(ex, y) ==
    /\ ~halted
    /\ UNCHANGED <<data_, origin_, barVars, cfgVars, highlighting_>>
    /\ ran("mouseMoveEvent", 0)
    /\ IF highlighting_ # "None"
       THEN \/ /\ word_width_ = 0
               /\ halted' = TRUE
               /\ UNCHANGED selVars
            \/ LET x      == contentX(ex)
                   offset == pixelToWord(highlighting_, x, y)
                   moved  == IF offset = -1
                             THEN row_width_
                             ELSE LET byte_offset == byteOffsetOf(offset)
                                  IN  IF byte_offset = selection_start_
                                      THEN byte_offset + word_width_
                                      ELSE byte_offset
               IN  /\ UNCHANGED selection_start_
                   /\ selection_end_' =
                         IF selection_start_ # -1
                         THEN (IF moved < 0 THEN 0 ELSE moved)
                         ELSE selection_end_
                   /\ halted' = toolTipDerefsNull'
       ELSE UNCHANGED <<selVars, halted>>

\* a release of the left button that leaves highlighting_ as it is
mouseReleaseEventKeepsHighlighting ==
    /\ ~halted
    /\ UNCHANGED <<data_, selVars, origin_, barVars, cfgVars, highlighting_, halted>>
    /\ ran("mouseReleaseEvent", 0)

\* the left button is released
mouseReleaseEvent ==
    /\ ~halted
    /\ highlighting_' = "None"
    /\ UNCHANGED <<data_, selVars, origin_, barVars, cfgVars, halted>>
    /\ ran("mouseReleaseEvent", 0)

(***************************************************************************)
(* Formatting: formatBytes and formatAddress write text with qsnprintf.    *)
(* Text is a sequence of one-character strings; integers wider than 16     *)
(* bits are sequences of 16-bit limbs.                                     *)
(***************************************************************************)
HexChars ==
    <<"0", "1", "2", "3", "4", "5", "6", "7", "8", "9", "a", "b", "c", "d", "e", "f">>

\* the four hexadecimal digits of a 16-bit limb, most significant first
limbDigits(limb) ==
    <<limb \div 4096, (limb \div 256) % 16, (limb \div 16) % 16, limb % 16>>

\* the digits without their leading zeros; a value of zero keeps one digit
RECURSIVE significantDigits(_)
significantDigits(digits) ==
    IF Len(digits) > 1 /\ Head(digits) = 0
    THEN significantDigits(Tail(digits))
    ELSE digits

\* qsnprintf "%0<width>x" of the value whose digits, most significant first,
\* are given: its significant digits, padded with zeros on the left to width
printfHex(digits, width) ==
    LET significant == significantDigits(digits)
        padding     == Max(0, width - Len(significant))
    IN  [k \in 1 .. (padding + Len(significant)) |->
            IF k <= padding THEN "0" ELSE HexChars[significant[k - padding] + 1]]

\* row_data[index + k] & 0xff
byteAt(row, index, k) == row[index + k + 1] % 256

\* the 16-bit limb j of the value the union holds: bytes 2j and 2j + 1 of the
\* window, shifted into place
wordLimb(row, index, j) ==
    byteAt(row, index, 2 * j) + 256 * byteAt(row, index, 2 * j + 1)

\* formatBytes assembling the word with the first byte most significant
formatBytesBigEndian(row, index) ==
    LET swapped(j) == 256 * byteAt(row, index, 2 * j) + byteAt(row, index, 2 * j + 1)
    IN  CASE word_width_ = 1 ->
               printfHex(<<byteAt(row, index, 0) \div 16, byteAt(row, index, 0) % 16>>, 2)
          [] word_width_ = 2 ->
               printfHex(limbDigits(swapped(0)), 4)
          [] word_width_ = 4 ->
               printfHex(limbDigits(swapped(0)) \o limbDigits(swapped(1)), 8)
          [] word_width_ = 8 ->
               printfHex(limbDigits(swapped(0)) \o limbDigits(swapped(1))
                           \o limbDigits(swapped(2)) \o limbDigits(swapped(3)), 16)

\* formatBytes(row_data, index) for the word widths its switch has a case for
formatBytes(row, index) ==
    CASE word_width_ = 1 ->
           printfHex(<<byteAt(row, index, 0) \div 16, byteAt(row, index, 0) % 16>>, 2)
      [] word_width_ = 2 ->
           printfHex(limbDigits(wordLimb(row, index, 0)), 4)
      [] word_width_ = 4 ->
           printfHex(limbDigits(wordLimb(row, index, 1))
                       \o limbDigits(wordLimb(row, index, 0)), 8)
      [] word_width_ = 8 ->
           printfHex(limbDigits(wordLimb(row, index, 3)) \o limbDigits(wordLimb(row, index, 2))
                       \o limbDigits(wordLimb(row, index, 1))
                       \o limbDigits(wordLimb(row, index, 0)), 16)

\* formatAddress printing both halves with "%x", the zero padding forgotten
formatAddressUnpadded(addr) ==
    LET separator == IF show_address_separator_ THEN <<":">> ELSE <<>>
    IN  CASE address_size_ = Address32 ->
               printfHex(limbDigits(addr[2]), 1) \o separator
                   \o printfHex(limbDigits(addr[1]), 1)
          [] address_size_ = Address64 ->
               printfHex(limbDigits(addr[4]) \o limbDigits(addr[3]), 1) \o separator
                   \o printfHex(limbDigits(addr[2]) \o limbDigits(addr[1]), 1)
          [] OTHER -> <<>>

\* formatAddress(address): hi and lo are the masked halves of the address,
\* 16 bits each for Address32 and 32 bits each for Address64
formatAddress(addr) ==
    LET separator == IF show_address_separator_ THEN <<":">> ELSE <<>>
    IN  CASE address_size_ = Address32 ->
               printfHex(limbDigits(addr[2]), 4) \o separator
                   \o printfHex(limbDigits(addr[1]), 4)
          [] address_size_ = Address64 ->
               printfHex(limbDigits(addr[4]) \o limbDigits(addr[3]), 8) \o separator
                   \o printfHex(limbDigits(addr[2]) \o limbDigits(addr[1]), 8)
          [] OTHER -> <<>>

\* a call formatAddress(addr).  hideLeadingZeros is what the host wants of
\* the address column; formatAddress has no parameter and the widget no
\* member for it, so it is recorded and changes nothing.
formatAddressCall(addr, hideLeadingZeros) ==
    /\ ~halted
    /\ address' = addr
    /\ text' = formatAddress(addr)
    /\ lastOp' = "formatAddress"
    /\ lastArg' = IF hideLeadingZeros THEN 1 ELSE 0
    /\ UNCHANGED <<data_, selVars, origin_, barVars, cfgVars, highlighting_, halted,
                   leftButtonDown, row_data>>

\* what an uninitialised byte_buffer may hold, as far as the properties look
UninitialisedTexts == {<<>>, <<"?">>, <<"0", "0">>}

\* a call formatBytes(row_data, index) whose window lies inside row_data; with
\* a word width the switch has no case for, byte_buffer is returned as it is
formatBytesCall(index) ==
    /\ ~halted
    /\ index + word_width_ <= Len(row_data)
    /\ IF word_width_ \in MenuWordWidths
       THEN text' = formatBytes(row_data, index)
       ELSE text' \in UninitialisedTexts
    /\ lastOp' = "formatBytes"
    /\ lastArg' = index
    /\ UNCHANGED <<data_, selVars, origin_, barVars, cfgVars, highlighting_, halted,
                   leftButtonDown, row_data, address>>

\* data_->read(chars_per_row) returning bytes
readRow(bytes) ==
    /\ ~halted
    /\ row_data' = bytes
    /\ text' = <<>>
    /\ lastOp' = "read"
    /\ lastArg' = Len(bytes)
    /\ UNCHANGED <<data_, selVars, origin_, barVars, cfgVars, highlighting_, halted,
                   leftButtonDown, address>>

(***************************************************************************)
(* Clipboard export: mnuCopy, drawHexDumpToBuffer, drawAsciiDumpToBuffer.  *)
(* The device is a QBuffer: seek(pos) fails and leaves the position alone  *)
(* unless 0 <= pos <= size(), read(n) returns the bytes from the position  *)
(* up to n or the end of the data and advances the position.               *)
(***************************************************************************)
\* the byte the document holds at index i: 'A' at even and '\n' at odd indices
documentByte(i) == IF i % 2 = 0 THEN 65 ELSE 10

\* the character drawAsciiDumpToBuffer writes for a selected byte
exportChar(ch) ==
    IF ch >= 32 /\ ch < 127
    THEN (IF ch = 65 THEN "A" ELSE "#")
    ELSE "."

\* data_->seek(offset) with the device at pos: the position afterwards
seekFrom(pos, offset) ==
    IF offset >= 0 /\ offset <= dataSize THEN offset ELSE pos

\* data_->read(chars_per_row) with the device at pos: the number of bytes
readSize(pos) == Max(0, Min(bytesPerRow, dataSize - pos))

\* ... and the bytes
readBytes(pos) == [k \in 1 .. readSize(pos) |-> documentByte(pos + k - 1)]

\* count spaces
spaces(count) == [k \in 1 .. count |-> " "]

\* the address of a row as limbs, address_offset_ being 0
rowAddress(offset) == <<offset % Limb, (offset \div Limb) % Limb, 0, 0>>

\* drawHexDumpToBuffer: the words i of the row at offset it formats
exportedWords(offset) ==
    {i \in 0 .. (row_width_ - 1) : offset + (i * word_width_) + word_width_ <= dataSize}

\* drawHexDumpToBuffer(stream, offset, size, row), words i onward
RECURSIVE drawHexDumpToBuffer(_, _, _)
drawHexDumpToBuffer(offset, row, i) ==
    IF i < row_width_ /\ i \in exportedWords(offset)
    THEN LET index      == offset + (i * word_width_)
             byteBuffer == formatBytes(row, i * word_width_)
         IN  (IF isSelected(index) THEN byteBuffer ELSE spaces(Len(byteBuffer)))
                 \o (IF i # row_width_ - 1 THEN <<" ">> ELSE <<>>)
                 \o drawHexDumpToBuffer(offset, row, i + 1)
    ELSE <<>>

\* drawAsciiDumpToBuffer(stream, offset, size, row), bytes i onward
RECURSIVE drawAsciiDumpToBuffer(_, _, _)
drawAsciiDumpToBuffer(offset, row, i) ==
    IF i < bytesPerRow /\ offset + i < dataSize
    THEN <<IF isSelected(offset + i) THEN exportChar(row[i + 1]) ELSE " ">>
             \o drawAsciiDumpToBuffer(offset, row, i + 1)
    ELSE <<>>

\* what mnuCopy writes for the row at offset, the device being at pos when
\* the row is reached
copyLine(offset, pos) ==
    LET row == readBytes(seekFrom(pos, offset))
    IN  (IF row # <<>>
         THEN (IF show_address_ THEN formatAddress(rowAddress(offset)) \o <<"|">> ELSE <<>>)
                \o (IF show_hex_ THEN drawHexDumpToBuffer(offset, row, 0) \o <<"|">> ELSE <<>>)
                \o (IF show_ascii_ THEN drawAsciiDumpToBuffer(offset, row, 0) \o <<"|">>
                    ELSE <<>>)
         ELSE <<>>) \o <<"\n">>

\* the rows mnuCopy's loop reads, from offset on with the device at pos: the
\* set of <<offset, position read from>>
RECURSIVE copyReads(_, _)
copyReads(offset, pos) ==
    IF offset < Max(selection_start_, selection_end_)
    THEN IF (offset + bytesPerRow) > Min(selection_start_, selection_end_)
         THEN LET from == seekFrom(pos, offset)
              IN  {<<offset, from>>}
                      \cup copyReads(offset + bytesPerRow, from + readSize(from))
         ELSE copyReads(offset + bytesPerRow, pos)
    ELSE {}

\* the text mnuCopy's loop writes, from offset on with the device at pos
RECURSIVE copyText(_, _)
copyText(offset, pos) ==
    IF offset < Max(selection_start_, selection_end_)
    THEN IF (offset + bytesPerRow) > Min(selection_start_, selection_end_)
         THEN LET from == seekFrom(pos, offset)
              IN  copyLine(offset, pos)
                      \o copyText(offset + bytesPerRow, from + readSize(from))
         ELSE copyText(offset + bytesPerRow, pos)
    ELSE <<>>

\* mnuCopy(), the device standing at pos; without a document the first row
\* read goes through the null data_
mnuCopy(pos) ==
    /\ ~halted
    /\ bytesPerRow > 0
    /\ lastOp' = "mnuCopy"
    /\ lastArg' = pos
    /\ UNCHANGED <<data_, selVars, origin_, barVars, cfgVars, highlighting_,
                   leftButtonDown, row_data, address>>
    /\ IF hasSelectedText
       THEN IF data_ = NullDevice /\ copyReads(normalizedOffset, pos) # {}
            THEN /\ halted' = TRUE
                 /\ UNCHANGED text
            ELSE /\ text' = copyText(normalizedOffset, pos)
                 /\ UNCHANGED halted
       ELSE UNCHANGED <<text, halted>>

\* the host takes the text off the clipboard
takeClipboard ==
    /\ text' = <<>>
    /\ lastOp' = "takeClipboard"
    /\ lastArg' = 0
    /\ UNCHANGED <<data_, selVars, origin_, barVars, cfgVars, highlighting_, halted,
                   leftButtonDown, row_data, address>>

(***************************************************************************)
(* The widget after construction: the member initialisers of qhexview.h,   *)
(* then setFont and setShowAddressSeparator(true), which end in            *)
(* updateScrollbars().                                                     *)
(***************************************************************************)
constructed(rowWidth, wordWidth, addressSize, fontWidth, fontHeight, width, height) ==
    /\ data_ = NullDevice
    /\ selection_start_ = -1
    /\ selection_end_ = -1
    /\ origin_ = 0
    /\ row_width_ = rowWidth
    /\ word_width_ = wordWidth
    /\ show_address_ = TRUE
    /\ show_hex_ = TRUE
    /\ show_ascii_ = TRUE
    /\ show_address_separator_ = TRUE
    /\ address_size_ = addressSize
    /\ font_width_ = fontWidth
    /\ font_height_ = fontHeight
    /\ vpWidth = width
    /\ vpHeight = height
    /\ highlighting_ = "None"
    /\ leftButtonDown = FALSE
    /\ halted = FALSE
    /\ vsbMax = verticalMaximum
    /\ vsbValue = 0
    /\ hsbMax = horizontalMaximum
    /\ hsbValue = 0
    /\ lastOp = "constructor"
    /\ lastArg = 0
    /\ row_data = <<>>
    /\ address = <<0, 0, 0, 0>>
    /\ text = <<>>

(***************************************************************************)
(* Spec: the selection.  The host has set the row and word widths.         *)
(***************************************************************************)
\* the x coordinates the mouse events take: one pixel left of the hex column
\* (every pixel of the address column maps like it) up to one pixel past line 3
MouseXs == (vertline1 - 1) .. (vertline3 + 1)

\* the y coordinates of a press or double click: inside the viewport
PressYs == 0 .. (vpHeight - 1)

\* the y coordinates of a drag: it may leave the viewport at the top
MoveYs == (0 - MaxOutside) .. (vpHeight - 1)

Init ==
    \E rowWidth \in 1 .. MaxRowWidth, wordWidth \in WordWidths :
        constructed(rowWidth, wordWidth, Address64, SpecFont.width, SpecFont.height,
                    SpecView.width, SpecView.height)

Next ==
    \/ \E size \in 0 .. MaxDataSize : setData(size)
    \/ clear
    \/ selectAllSlot
    \/ deselectSlot
    \/ keySelectAll
    \/ \E dir \in {"Key_Right", "Key_Left", "Key_Down", "Key_Up"} : keyShift(dir)
    \/ \E ex \in MouseXs, y \in PressYs, shift \in BOOLEAN : mousePressEvent(ex, y, shift)
    \/ \E ex \in MouseXs, y \in PressYs : mouseDoubleClickEvent(ex, y)
    \/ \E ex \in MouseXs, y \in MoveYs : mouseMoveEvent(ex, y)
    \/ mouseReleaseEvent

Spec == Init /\ [][Next]_vars

(***************************************************************************)
(* SpecScroll: the scroll window.  The viewport starts one row high and is *)
(* resized to 0 .. SpecView.height rows.                                   *)
(***************************************************************************)
InitScroll ==
    \E rowWidth \in 1 .. MaxRowWidth, wordWidth \in WordWidths :
        constructed(rowWidth, wordWidth, Address64, SpecFont.width, SpecFont.height,
                    SpecView.width, SpecFont.height)

NextScroll ==
    \/ \E height \in 0 .. SpecView.height : resizeEvent(SpecView.width, height)
    \/ \E size \in 0 .. MaxDataSize : setData(size)
    \/ \E rowWidth \in 1 .. MaxRowWidth : setRowWidth(rowWidth)
    \/ \E wordWidth \in WordWidths : setWordWidth(wordWidth)
    \/ \E offset \in 0 .. MaxDataSize : scrollToCall(offset)
    \/ \E value \in 0 .. vsbMax : verticalScroll(value)
    \/ paintEvent
    \/ keyMoveToStartOfDocument
    \/ keyMoveToEndOfDocument
    \/ keyCtrlDown
    \/ keyCtrlUp

SpecScroll == InitScroll /\ [][NextScroll]_vars

(***************************************************************************)
(* SpecLayout: the column layout over every valid configuration: the       *)
(* flags, the address size, the widths and the character width.            *)
(***************************************************************************)
InitLayout ==
    \E rowWidth \in 1 .. MaxRowWidth, wordWidth \in MenuWordWidths,
       addressSize \in {Address32, Address64}, fontWidth \in 1 .. MaxCharWidth :
        constructed(rowWidth, wordWidth, addressSize, fontWidth, SpecFont.height,
                    MaxViewCols, MaxViewRows)

NextLayout ==
    \/ \E show \in BOOLEAN : setShowAddress(show)
    \/ \E show \in BOOLEAN : setShowHexDump(show)
    \/ \E show \in BOOLEAN : setShowAsciiDump(show)
    \/ \E value \in BOOLEAN : setShowAddressSeparator(value)
    \/ \E address_size \in {Address32, Address64} : setAddressSize(address_size)
    \/ \E width \in 1 .. MaxCharWidth : setFont(width, SpecFont.height)
    \/ \E rowWidth \in 1 .. MaxRowWidth : setRowWidth(rowWidth)
    \/ \E wordWidth \in MenuWordWidths : setWordWidth(wordWidth)

SpecLayout == InitLayout /\ [][NextLayout]_vars

(***************************************************************************)
(* SpecBars: the scroll bar maxima, over the document size, the viewport,  *)
(* the font and the widths, with every handler that ends in or calls       *)
(* updateScrollbars().                                                     *)
(***************************************************************************)
\* fonts: a character cell w pixels wide is w + 1 pixels high
Fonts == {[width |-> w, height |-> w + 1] : w \in 1 .. MaxCharWidth}

ViewWidths == {MaxViewCols \div 3, MaxViewCols}

ViewHeights == {0, MaxViewRows, 2 * MaxViewRows}

NextBars ==
    \/ \E size \in 0 .. MaxDataSize : setData(size)
    \/ \E width \in ViewWidths, height \in ViewHeights : resizeEvent(width, height)
    \/ \E font \in Fonts : setFont(font.width, font.height)
    \/ \E rowWidth \in 1 .. MaxRowWidth : setRowWidth(rowWidth)
    \/ \E wordWidth \in WordWidths : setWordWidth(wordWidth)
    \/ \E show \in BOOLEAN : setShowAsciiDump(show)
    \/ \E offset \in 0 .. MaxDataSize : scrollToCall(offset)
    \/ paintEvent

SpecBars == Init /\ [][NextBars]_vars

(***************************************************************************)
(* SpecWidths: the width setters called with every width >= 0.             *)
(***************************************************************************)
NextWidths ==
    \/ \E rowWidth \in 0 .. MaxRowWidth : setRowWidth(rowWidth)
    \/ \E wordWidth \in {0} \cup WordWidths : setWordWidth(wordWidth)
    \/ \E size \in 0 .. MaxDataSize : setData(size)
    \/ \E offset \in 0 .. MaxDataSize : scrollToCall(offset)
    \/ paintEvent

SpecWidths == Init /\ [][NextWidths]_vars

(***************************************************************************)
(* SpecPaint: what paintEvent draws, over documents of several rows, the   *)
(* scroll position, the widths, the font and the viewport height.          *)
(***************************************************************************)
NextPaint ==
    \/ \E size \in 0 .. MaxDocSize : setData(size)
    \/ \E height \in ViewHeights : resizeEvent(MaxViewCols, height)
    \/ \E font \in Fonts : setFont(font.width, font.height)
    \/ \E rowWidth \in 1 .. MaxRowWidth : setRowWidth(rowWidth)
    \/ \E wordWidth \in WordWidths : setWordWidth(wordWidth)
    \/ \E offset \in 0 .. MaxDocSize : scrollToCall(offset)
    \/ paintEvent

SpecPaint == Init /\ [][NextPaint]_vars

(***************************************************************************)
(* SpecKeys: the widget as constructed, 16 one-byte words to the row, with *)
(* a document of at least one full row: left presses on the hex words of   *)
(* the first row and the Shift+arrow keys.                                 *)
(***************************************************************************)
\* int row_width_ = 16
DefaultRowWidth == 16

\* int word_width_ = 1
DefaultWordWidth == 1

\* the character cell and the viewport of this specification, in pixels
KeysFont == [width |-> 2, height |-> 3]

KeysView == [width |-> 64, height |-> 6]

\* the pixel centre of the rectangle drawHexDump gives word i
hexWordCentre(i) == hexDrawLeft(i) + (hexDrawWidth \div 2)

\* event->x() of the presses: the centre and the left edge of every hex word
KeysXs ==
    {hexWordCentre(i) - hsbValue * font_width_ : i \in 0 .. (row_width_ - 1)}
        \cup {hexDrawLeft(i) - hsbValue * font_width_ : i \in 0 .. (row_width_ - 1)}

\* event->y() of the presses: the first row
KeysYs == 0 .. (font_height_ - 1)

InitKeys ==
    constructed(DefaultRowWidth, DefaultWordWidth, Address64,
                KeysFont.width, KeysFont.height, KeysView.width, KeysView.height)

NextKeys ==
    \/ \E size \in DefaultRowWidth .. (DefaultRowWidth + 1) : setData(size)
    \/ \E ex \in KeysXs, y \in KeysYs, shift \in BOOLEAN : mousePressEvent(ex, y, shift)
    \/ mouseReleaseEvent
    \/ \E dir \in {"Key_Right", "Key_Left", "Key_Down", "Key_Up"} : keyShift(dir)

SpecKeys == InitKeys /\ [][NextKeys]_vars

(***************************************************************************)
(* SpecFormat: formatBytes over rows of bytes and every window of them.    *)
(***************************************************************************)
\* byte values: each nibble zero in one and non-zero in the other
ByteValues == {15, 160}

\* bytes 78 56 34 12
ExampleRow == <<120, 86, 52, 18>>

Rows == UNION {[1 .. n -> ByteValues] : n \in MenuWordWidths} \cup {ExampleRow}

\* the word widths formatBytes is called with: those of the menu and one more
FormatWordWidths == MenuWordWidths \cup {3}

InitFormat ==
    \E wordWidth \in FormatWordWidths :
        constructed(DefaultRowWidth, wordWidth, Address64,
                    SpecFont.width, SpecFont.height, SpecView.width, SpecView.height)

NextFormat ==
    \/ \E bytes \in Rows : readRow(bytes)
    \/ \E index \in 0 .. 7 : formatBytesCall(index)
    \/ \E wordWidth \in FormatWordWidths : setWordWidth(wordWidth)

SpecFormat == InitFormat /\ [][NextFormat]_vars

(***************************************************************************)
(* SpecAddress: formatAddress over addresses, the address size and the     *)
(* separator.                                                              *)
(***************************************************************************)
\* limb values: zero, 0x0010 and 0xffff
AddressLimbs == {0, 16, 65535}

Addresses == [1 .. 4 -> AddressLimbs]

InitAddress ==
    \E addressSize \in {Address32, Address64} :
        constructed(DefaultRowWidth, DefaultWordWidth, addressSize,
                    SpecFont.width, SpecFont.height, SpecView.width, SpecView.height)

NextAddress ==
    \/ \E addr \in Addresses, hideLeadingZeros \in BOOLEAN :
          formatAddressCall(addr, hideLeadingZeros)
    \/ \E address_size \in {Address32, Address64} : setAddressSize(address_size)
    \/ \E value \in BOOLEAN : setShowAddressSeparator(value)

SpecAddress == InitAddress /\ [][NextAddress]_vars

(***************************************************************************)
(* SpecCopy: painting and clipboard export over documents of several rows, *)
(* the scroll position and the selection.  The host takes each exported    *)
(* text before the next event.                                             *)
(***************************************************************************)
\* where the device may stand when mnuCopy starts
DevicePositions == 0 .. dataSize

NextCopy ==
    \/ text = <<>> /\ \E size \in 0 .. MaxDocSize : setData(size)
    \/ text = <<>> /\ \E offset \in 0 .. MaxDocSize : scrollToCall(offset)
    \/ text = <<>> /\ paintEvent
    \/ text = <<>> /\ selectAllSlot
    \/ text = <<>> /\ clear
    \/ text = <<>> /\ \E ex \in MouseXs, y \in PressYs, shift \in BOOLEAN :
                          mousePressEvent(ex, y, shift)
    \/ text = <<>> /\ \E pos \in DevicePositions : mnuCopy(pos)
    \/ text # <<>> /\ takeClipboard

SpecCopy == Init /\ [][NextCopy]_vars

(***************************************************************************)
(* SpecPress: left presses, with and without Shift, on a document.         *)
(***************************************************************************)
NextPress ==
    \/ \E size \in 0 .. MaxDataSize : setData(size)
    \/ \E ex \in MouseXs, y \in PressYs, shift \in BOOLEAN : mousePressEvent(ex, y, shift)
    \/ mouseReleaseEvent
    \/ deselectSlot

SpecPress == Init /\ [][NextPress]_vars

(***************************************************************************)
(* SpecClick: left clicks on the first hex word of the first row, between  *)
(* scrollTo, scroll bar moves, the width and address setters and repaints. *)
(***************************************************************************)
\* event->x() of the clicks: every pixel of the rectangle drawHexDump gives
\* word 0
ClickXs ==
    {x - hsbValue * font_width_ :
        x \in hexDrawLeft(0) .. (hexDrawLeft(0) + hexDrawWidth - 1)}

\* event->y() of the clicks: every pixel of the first row
ClickYs == 0 .. (font_height_ - 1)

NextClick ==
    \/ \E size \in 0 .. MaxDocSize : setData(size)
    \/ \E offset \in 0 .. MaxDocSize : scrollToCall(offset)
    \/ \E value \in 0 .. vsbMax : verticalScroll(value)
    \/ \E rowWidth \in 1 .. MaxRowWidth : setRowWidth(rowWidth)
    \/ \E wordWidth \in WordWidths : setWordWidth(wordWidth)
    \/ \E show \in BOOLEAN : setShowAddress(show)
    \/ paintEvent
    \/ \E ex \in ClickXs, y \in ClickYs : mousePressEvent(ex, y, FALSE)
    \/ mouseReleaseEvent

SpecClick == Init /\ [][NextClick]_vars

(***************************************************************************)
(* SpecEdge: left presses on the first row at every x from the address     *)
(* column to past line 3, over the menu's word widths and character cells  *)
(* of several widths.                                                      *)
(***************************************************************************)
NextEdge ==
    \/ \E size \in 0 .. MaxDocSize : setData(size)
    \/ \E ex \in MouseXs, y \in ClickYs : mousePressEvent(ex, y, FALSE)
    \/ mouseReleaseEvent

SpecEdge == InitLayout /\ [][NextEdge]_vars

(***************************************************************************)
(* SpecCtrl: Ctrl+Down and Ctrl+Up on documents of several rows, between   *)
(* scrollTo, scroll bar moves and repaints.                                *)
(***************************************************************************)
NextCtrl ==
    \/ \E size \in 0 .. MaxDocSize : setData(size)
    \/ \E offset \in 0 .. MaxDocSize : scrollToCall(offset)
    \/ \E value \in 0 .. vsbMax : verticalScroll(value)
    \/ paintEvent
    \/ keyCtrlDown
    \/ keyCtrlUp

SpecCtrl == Init /\ [][NextCtrl]_vars

(***************************************************************************)
(* Properties.                                                             *)
(***************************************************************************)
\* the byte indices the properties quantify over
Indices == (0 - MaxUnder - 1) .. (MaxDataSize + MaxRowWidth + 1)

\* ceilDiv(a, b) for a >= 0, b > 0
CeilDiv(a, b) == (a + b - 1) \div b

\* C1: in every reachable state selection_start_ is -1 if and only if
\* selection_end_ is -1.
C1_BothOrNeither == (selection_start_ = -1) <=> (selection_end_ = -1)

\* C2: isSelected(i) is true exactly when i < dataSize() and
\* min(start, end) <= i < max(start, end); it is false for every i when
\* start = end.
C2_IsSelectedRange ==
    /\ \A i \in Indices :
          isSelected(i) <=>
              /\ i < dataSize
              /\ Min(selection_start_, selection_end_) <= i
              /\ i < Max(selection_start_, selection_end_)
    /\ selection_start_ = selection_end_ => \A i \in Indices : ~isSelected(i)

\* a backward selection inside the document: its lower end is selected, its
\* upper end is not
C2_Witness ==
    /\ selection_end_ >= 0
    /\ selection_start_ > selection_end_
    /\ selection_start_ < dataSize
    /\ isSelected(selection_end_)
    /\ ~isSelected(selection_start_)

\* C3: after selectAll() the selection is (0, dataSize()): isSelected(i) is
\* true for every 0 <= i < dataSize() and false for every other i.
C3_SelectAll ==
    lastOp \in {"selectAll", "keySelectAll"} =>
        /\ selection_start_ = 0
        /\ selection_end_ = dataSize
        /\ \A i \in Indices : isSelected(i) <=> (0 <= i /\ i < dataSize)

\* selectAll() has run on a document of several bytes
C3_Witness ==
    /\ lastOp = "selectAll"
    /\ dataSize >= 2
    /\ isSelected(dataSize - 1)

\* C4: after clear() the selection is (-1, -1) and hasSelectedText() is false.
C4_ClearDeselects ==
    lastOp = "clear" =>
        /\ selection_start_ = -1
        /\ selection_end_ = -1
        /\ ~hasSelectedText

\* C5: after setData(d) the selection is (-1, -1) and the vertical maximum is
\* the one of the new document: max(0, ceilDiv(size, bytesPerRow) - visible rows).
C5_SetDataResets ==
    lastOp = "setData" =>
        /\ data_ = lastArg
        /\ selection_start_ = -1
        /\ selection_end_ = -1
        /\ vsbMax = Max(0, CeilDiv(lastArg, bytesPerRow) - (vpHeight \div font_height_))

\* setData has run, after a mouse press on the previous document, with a
\* document longer than the viewport
C5_Witness ==
    /\ lastOp = "setData"
    /\ highlighting_ # "None"
    /\ vsbMax > 0
    /\ ~hasSelectedText

\* C6: bytesPerRow() = rowWidth * wordWidth > 0 in every reachable state: the
\* width setters reject every width <= 0.
C6_BytesPerRowPositive ==
    /\ row_width_ > 0
    /\ word_width_ > 0
    /\ bytesPerRow > 0

\* C7: for every valid configuration 0 <= vertline1() <= vertline2() <= vertline3().
C7_LineOrder ==
    /\ 0 <= vertline1
    /\ vertline1 <= vertline2
    /\ vertline2 <= vertline3

\* the hex column is hidden (line 2 falls on line 1) while the address and
\* ascii columns are shown, with 8-byte words and a 32-bit address
C7_Witness ==
    /\ ~show_hex_
    /\ show_address_
    /\ show_ascii_
    /\ word_width_ = 8
    /\ address_size_ = Address32
    /\ 0 < vertline1
    /\ vertline1 = vertline2
    /\ vertline2 < vertline3

\* the row scrollTo(b) asks the vertical scroll bar for
C8_Row(b) == (b \div bytesPerRow) + (IF b % bytesPerRow # 0 THEN 1 ELSE 0)

\* C8 as stated: after scrollTo(b) with 0 <= b < dataSize(), origin is
\* b % bytesPerRow, the row index is b / bytesPerRow plus one when origin != 0,
\* and normalizedOffset() is b.
C8_ScrollToFirstVisible ==
    (lastOp = "scrollTo" /\ 0 <= lastArg /\ lastArg < dataSize) =>
        /\ origin_ = lastArg % bytesPerRow
        /\ vsbValue = C8_Row(lastArg)
        /\ normalizedOffset = lastArg

\* C8 as amended: after scrollTo(b) with 0 <= b < dataSize(), origin is
\* b % bytesPerRow and the row index is the smaller of b / bytesPerRow (plus one
\* when origin != 0) and the vertical maximum; normalizedOffset() is b when that
\* row is within the vertical maximum.
C8_ScrollToClamped ==
    (lastOp = "scrollTo" /\ 0 <= lastArg /\ lastArg < dataSize) =>
        /\ origin_ = lastArg % bytesPerRow
        /\ vsbValue = Min(C8_Row(lastArg), vsbMax)
        /\ C8_Row(lastArg) <= vsbMax => normalizedOffset = lastArg

\* scrollTo(b) has scrolled to a byte in the middle of a row, unclamped
C8_Witness ==
    /\ lastOp = "scrollTo"
    /\ lastArg < dataSize
    /\ origin_ # 0
    /\ vsbValue = C8_Row(lastArg)
    /\ vsbValue > 0
    /\ normalizedOffset = lastArg

\* C9: in every reachable state 0 <= origin < bytesPerRow() and the row index
\* is >= 0.
C9_OriginInRow ==
    /\ 0 <= origin_
    /\ origin_ < bytesPerRow
    /\ vsbValue >= 0

\* C10: the vertical maximum is max(0, ceilDiv(dataSize, bytesPerRow) - visible
\* rows), the horizontal maximum is max(0, (vertline3 - viewport width) / cw),
\* neither is negative, and an empty document has vertical maximum 0.
C10_BarMaxima ==
    /\ vsbMax = Max(0, CeilDiv(dataSize, bytesPerRow) - (vpHeight \div font_height_))
    /\ hsbMax = IF vertline3 > vpWidth
                THEN (vertline3 - vpWidth) \div font_width_
                ELSE 0
    /\ vsbMax >= 0
    /\ hsbMax >= 0
    /\ dataSize = 0 => vsbMax = 0

\* a resize has left a document with a partial last row longer than the
\* viewport, and the columns wider than it
C10_Witness ==
    /\ lastOp = "resizeEvent"
    /\ dataSize % bytesPerRow # 0
    /\ vsbMax > 0
    /\ hsbMax > 0

\* the state paintEvent leaves: no origin reset is pending
C11_Painted == ~(origin_ # 0 /\ vsbValue * bytesPerRow <= 0)

\* C11: once painted, every pixel inside the rectangle drawHexDump gives a
\* word maps back, in Data mode, to that word, and every pixel inside the
\* cell drawAsciiDump gives a byte maps, in Ascii mode, to the word holding
\* that byte (word indices compared by the byte offset the mouse handlers
\* derive from them).
C11_PixelRoundTrip ==
    C11_Painted =>
        \A r \in drawnRows :
            \A y \in (r * font_height_) .. (r * font_height_ + font_height_ - 1) :
                /\ show_hex_ =>
                      \A i \in drawnWords(rowOffset(r)) :
                          \A x \in hexDrawLeft(i) .. (hexDrawLeft(i) + hexDrawWidth - 1) :
                              byteOffsetOf(pixelToWord("Data", x, y))
                                  = rowOffset(r) + i * word_width_
                /\ show_ascii_ =>
                      \A i \in drawnBytes(rowOffset(r)) :
                          \A x \in asciiDrawLeft(i) .. (asciiDrawLeft(i) + font_width_ - 1) :
                              LET b == byteOffsetOf(pixelToWord("Ascii", x, y))
                              IN  b <= rowOffset(r) + i /\ rowOffset(r) + i < b + word_width_

\* a second word of a row is drawn, in both columns, on a view scrolled to a
\* byte that is not word aligned, and the view has been painted
C11_Witness ==
    /\ lastOp = "paintEvent"
    /\ show_hex_ /\ show_ascii_
    /\ CMod(origin_, word_width_) # 0
    /\ normalizedOffset > 0
    /\ \E r \in drawnRows : 1 \in drawnWords(rowOffset(r))

\* the endpoints a handler leaves when it finds no target: each is kept or -1
C12_NoSelectionFrom(word) ==
    (word < 0 \/ word >= dataSize) =>
        /\ selection_start_' \in {selection_start_, -1}
        /\ selection_end_' \in {selection_end_, -1}

\* C12: a left press, a drag move and a double click whose pixelToWord
\* result lies outside [0, dataSize()) derive no selection endpoint from it.
C12_MouseRangeChecked ==
    [][\A ex \in MouseXs, y \in MoveYs :
          LET x == contentX(ex)
          IN  /\ \A shift \in BOOLEAN :
                    (y \in PressYs /\ word_width_ > 0 /\ mousePressEvent(ex, y, shift)) =>
                        C12_NoSelectionFrom(
                            pixelToWord(IF x < vertline2 THEN "Data" ELSE "Ascii", x, y))
              /\ (y \in PressYs /\ x < vertline2 /\ word_width_ > 0
                     /\ mouseDoubleClickEvent(ex, y)) =>
                        C12_NoSelectionFrom(
                            pixelToWord("Data", IF x >= vertline1 THEN x ELSE vertline1, y))
              /\ (highlighting_ # "None" /\ selection_start_ # -1 /\ word_width_ > 0
                     /\ mouseMoveEvent(ex, y)) =>
                        C12_NoSelectionFrom(pixelToWord(highlighting_, x, y))
      ]_vars

\* the scenario's view: 16 bytes to the row, one-byte words, scrolled to the
\* top, a document of at least 16 bytes
C13_View ==
    /\ bytesPerRow = 16 /\ word_width_ = 1
    /\ vsbValue = 0 /\ origin_ = 0
    /\ dataSize >= 16

\* the scenario step by step; last is the selection after the Shift+Left
C13_Steps(last) ==
    C13_View =>
        /\ \A y \in KeysYs :
              mousePressEvent(hexWordCentre(3) - hsbValue * font_width_, y, FALSE) =>
                  <<selection_start_, selection_end_>>' = <<3, 4>>
        /\ (<<selection_start_, selection_end_>> = <<3, 4>> /\ keyShift("Key_Right")) =>
                  <<selection_start_, selection_end_>>' = <<3, 5>>
        /\ (<<selection_start_, selection_end_>> = <<3, 5>> /\ keyShift("Key_Right")) =>
                  <<selection_start_, selection_end_>>' = <<3, 6>>
        /\ (<<selection_start_, selection_end_>> = <<3, 6>> /\ keyShift("Key_Left")) =>
                  <<selection_start_, selection_end_>>' = last

\* C13 as stated: a click at the centre of hex word 3 selects [3,4), two
\* Shift+Right make it [3,6), one Shift+Left then makes it [4,6).
C13_ScenarioAsStated == [][C13_Steps(<<4, 6>>)]_vars

\* C13 amended: the Shift+Left takes the end back by one word, to [3,5).
C13_ScenarioEndRetracts == [][C13_Steps(<<3, 5>>)]_vars

\* the selection the scenario ends in, just after Shift+Left
C13_Witness ==
    /\ C13_View
    /\ lastOp = "Key_Left"
    /\ <<selection_start_, selection_end_>> = <<3, 5>>

\* the value of a hexadecimal character
C14_DigitValue(ch) == CHOOSE d \in 0 .. 15 : HexChars[d + 1] = ch

\* C14: for word widths 1, 2, 4 and 8, formatBytes writes 2 * wordWidth
\* hexadecimal digits, the last byte of the window first and the first byte
\* last; read as one hexadecimal number that is the little-endian value of
\* the window, digit pair for byte k standing at weight 256^k.
C14_LittleEndian ==
    (lastOp = "formatBytes" /\ word_width_ \in {1, 2, 4, 8}) =>
        /\ Len(text) = 2 * word_width_
        /\ \A k \in 0 .. (word_width_ - 1) :
              LET pos == 2 * (word_width_ - 1 - k) + 1
              IN  /\ text[pos] \in {HexChars[d] : d \in 1 .. 16}
                  /\ text[pos + 1] \in {HexChars[d] : d \in 1 .. 16}
                  /\ 16 * C14_DigitValue(text[pos]) + C14_DigitValue(text[pos + 1])
                        = row_data[lastArg + k + 1]
        /\ (word_width_ = 4 /\ row_data = ExampleRow) =>
              text = <<"1", "2", "3", "4", "5", "6", "7", "8">>

\* bytes 78 56 34 12 have been formatted with word width 4
C14_Witness ==
    /\ lastOp = "formatBytes"
    /\ word_width_ = 4
    /\ row_data = ExampleRow
    /\ Len(text) = 8

\* C15: whatever the address, the text formatAddress writes is addressLen()
\* characters long; with 64-bit addresses and the separator, address 0x10 is
\* written 00000000:00000010.
C15_AddressWidth ==
    lastOp = "formatAddress" =>
        /\ Len(text) = addressLen
        /\ (address_size_ = Address64 /\ show_address_separator_
               /\ address = <<16, 0, 0, 0>>) =>
              text = <<"0", "0", "0", "0", "0", "0", "0", "0", ":",
                       "0", "0", "0", "0", "0", "0", "1", "0">>

\* address 0x10 has been formatted with 64-bit addresses and the separator
C15_Witness ==
    /\ lastOp = "formatAddress"
    /\ address_size_ = Address64
    /\ show_address_separator_
    /\ address = <<16, 0, 0, 0>>
    /\ Len(text) = 17

\* C16: with 64-bit addresses, an address formatted for a host that wants
\* the leading zeros hidden has its high half written as 4 digits, and the
\* text and addressLen() are 12 characters long, 13 with the separator.
C16_LeadingZerosHidden ==
    (lastOp = "formatAddress" /\ lastArg = 1 /\ address_size_ = Address64) =>
        LET length == 12 + (IF show_address_separator_ THEN 1 ELSE 0)
        IN  /\ addressLen = length
            /\ Len(text) = length
            /\ SubSeq(text, 1, 4) = printfHex(limbDigits(address[3]), 4)

\* C17: in every state, for every row paintEvent draws and every row
\* mnuCopy reads (wherever the device stood before), each word formatted
\* lies inside the bytes read for its row, and each word and byte written to
\* the hex or ascii column lies inside the document.
C17_FormatsInsideRow ==
    /\ \A r \in drawnRows :
          LET offset == rowOffset(r)
              size   == readSize(seekFrom(0, offset))
          IN  /\ \A i \in drawnWords(offset) :
                    /\ i * word_width_ + word_width_ <= size
                    /\ offset + i * word_width_ + word_width_ <= dataSize
              /\ \A i \in drawnBytes(offset) :
                    i < size /\ offset + i < dataSize
    /\ (hasSelectedText /\ data_ # NullDevice) =>
          \A pos \in DevicePositions :
              \A read \in copyReads(normalizedOffset, pos) :
                  LET offset == read[1]
                      size   == readSize(read[2])
                  IN  /\ \A i \in exportedWords(offset) :
                            /\ i * word_width_ + word_width_ <= size
                            /\ read[2] + i * word_width_ + word_width_ <= dataSize
                      /\ \A i \in 0 .. (bytesPerRow - 1) :
                            offset + i < dataSize => (i < size /\ read[2] + i < dataSize)

\* a short last row with a partial word is both painted and exported, the
\* view scrolled off a row boundary
C17_Witness ==
    /\ lastOp = "mnuCopy"
    /\ word_width_ = 2
    /\ origin_ # 0
    /\ \E r \in drawnRows :
          /\ readSize(rowOffset(r)) < bytesPerRow
          /\ readSize(rowOffset(r)) % word_width_ # 0
    /\ \E read \in copyReads(normalizedOffset, lastArg) :
          readSize(read[2]) < bytesPerRow

\* the rows of the document as the view lays them out: the offsets of the
\* visible rows continued upward and downward, the first row starting at 0
C18_RowOffsets ==
    {offset \in 0 .. (MaxDocSize + 2 * MaxRowWidth) :
        offset = 0 \/ (offset - normalizedOffset) % bytesPerRow = 0}

\* ... of which those that hold a byte of the selected interval
C18_SelectedRows ==
    LET start == Min(selection_start_, selection_end_)
        end   == Max(selection_start_, selection_end_)
    IN  {offset \in C18_RowOffsets :
            \E index \in start .. (end - 1) :
                /\ index >= offset
                /\ \A next \in C18_RowOffsets : next > offset => index < next}

\* the number of lines of the text
C18_Lines == Cardinality({k \in 1 .. Len(text) : text[k] = "\n"})

\* C18: mnuCopy with a selection writes one line for each row that holds a
\* byte of [min(start,end), max(start,end)) and no other line, wherever the
\* view is scrolled to.
C18_OneLinePerSelectedRow ==
    (lastOp = "mnuCopy" /\ hasSelectedText /\ ~halted) =>
        C18_Lines = Cardinality(C18_SelectedRows)

\* C19: a left press on a word w < dataSize() whose byte offset is b sets
\* only the end, to b, if Shift is held and there is a selection, and
\* otherwise makes the selection (b, b + wordWidth).
C19_PressSelects ==
    [][lastOp' = "mousePressEvent" =>
          \A ex \in MouseXs, y \in PressYs, shift \in BOOLEAN :
              LET x == contentX(ex)
                  w == pixelToWord(IF x < vertline2 THEN "Data" ELSE "Ascii", x, y)
                  b == byteOffsetOf(w)
              IN  (word_width_ > 0 /\ w < dataSize /\ mousePressEvent(ex, y, shift)) =>
                      IF shift /\ hasSelectedText
                      THEN /\ selection_end_' = b
                           /\ selection_start_' = selection_start_
                      ELSE /\ selection_start_' = b
                           /\ selection_end_' = b + word_width_
      ]_vars

\* a press with Shift has put the end before the start
C19_Witness ==
    /\ lastOp = "mousePressEvent"
    /\ selection_end_ # -1
    /\ selection_end_ < selection_start_

\* Shift+Right on a selection: the start gives way by one word if the
\* selection is degenerate, and the end is as endAfter says
C20_ShiftRight(endAfter(_)) ==
    (word_width_ > 0 /\ keyShift("Key_Right")) =>
        /\ selection_start_' =
              IF selection_start_ = selection_end_
              THEN selection_start_ - word_width_
              ELSE selection_start_
        /\ endAfter(selection_end_')

C21_ShiftLeft ==
    [][(word_width_ > 0 /\ keyShift("Key_Left")) =>
          LET oneWord == (selection_end_ - word_width_) = selection_start_
              start1  == IF oneWord THEN selection_start_ + word_width_
                                    ELSE selection_start_
              end1    == IF oneWord THEN selection_end_ - word_width_
                                    ELSE selection_end_
          IN  /\ selection_start_' = start1
              /\ selection_end_' =
                    IF CDiv(end1, word_width_) > 0 THEN end1 - word_width_ ELSE end1
      ]_vars

\* Shift+Left has turned a selection round: the end is two words before the
\* start
C21_Witness ==
    /\ lastOp = "Key_Left"
    /\ selection_end_ >= 0
    /\ selection_end_ = selection_start_ - 2 * word_width_

\* C22: Shift+Up on a selection: if end - wordWidth = start, the start moves
\* forward and the end back by one word each; then rowWidth is subtracted
\* from the end, and the end that results is clamped at 0.
C22_ShiftUpClamped ==
    [][keyShift("Key_Up") =>
          LET oneWord == (selection_end_ - word_width_) = selection_start_
              start1  == IF oneWord THEN selection_start_ + word_width_
                                    ELSE selection_start_
              end1    == IF oneWord THEN selection_end_ - word_width_
                                    ELSE selection_end_
          IN  /\ selection_start_' = start1
              /\ selection_end_' = Max(0, end1 - row_width_)
      ]_vars

\* C23: after every mouse move while a button-down selection is active
\* (start # -1) the start is unchanged, the end is not negative and the end
\* differs from the start: the range is never empty.
C23_DragKeepsRange ==
    [][(/\ lastOp' = "mouseMoveEvent"
        /\ highlighting_ # "None"
        /\ selection_start_ # -1) =>
          /\ selection_start_' = selection_start_
          /\ selection_end_' >= 0
          /\ selection_end_' # selection_start_'
      ]_vars

\* C24: a repaint that finds origin # 0 with the row offset at 0 resets the
\* origin to 0 and recomputes the scroll bounds, and otherwise leaves the
\* origin unchanged; so after any repaint origin # 0 implies that the
\* vertical row index is > 0.
C24_RepaintResetsOrigin ==
    [][paintEvent =>
          /\ IF origin_ # 0 /\ vsbValue * bytesPerRow <= 0
             THEN /\ origin_' = 0
                  /\ ~halted' => /\ vsbMax' = verticalMaximum'
                                 /\ hsbMax' = horizontalMaximum'
             ELSE /\ origin_' = origin_
                  /\ UNCHANGED barVars
          /\ origin_' # 0 => vsbValue' > 0
      ]_vars

\* a repaint has found an origin inside the first row of a document of
\* several rows and reset it
C24_Witness ==
    /\ lastOp = "paintEvent"
    /\ lastArg # 0
    /\ origin_ = 0
    /\ vsbValue = 0
    /\ dataSize > bytesPerRow

\* C25: whenever a selection exists on a document of size N, both start and
\* end lie in [0, N], so selectedBytesSize() is the number of indices i for
\* which isSelected(i) is true.
C25_SelectionInsideDocument ==
    (data_ # NullDevice /\ hasSelectedText) =>
        /\ 0 <= selection_start_ /\ selection_start_ <= dataSize
        /\ 0 <= selection_end_ /\ selection_end_ <= dataSize
        /\ selectedBytesSize = Cardinality({i \in Indices : isSelected(i)})

\* C26: in every reachable state a left click inside the first hex word of
\* the first visible row selects from the first visible byte: the selection
\* start is normalizedOffset().
C26_ClickSelectsFirstVisible ==
    [][\A ex \in ClickXs, y \in ClickYs :
          (/\ show_hex_
           /\ 0 \in drawnRows
           /\ 0 \in drawnWords(normalizedOffset)
           /\ mousePressEvent(ex, y, FALSE)) =>
              selection_start_' = normalizedOffset
      ]_vars

\* the x coordinates of the hex column and one pixel either side of the range
\* pixelToWord clamps them to
C27_Xs == (vertline1 - 1) .. (vertline2 + font_width_ + 1)

\* the word column inside its row that pixelToWord computed in Data mode:
\* its result less row * rowWidth and the start word offset
C27_Column(x, y) ==
    pixelToWord("Data", x, y)
        - CDiv(y, font_height_) * row_width_
        - (CDiv(normalizedOffset, word_width_)
             + (IF CMod(origin_, word_width_) # 0 THEN 1 ELSE 0))

\* C27 as stated: in Data mode the word column is in [0, rowWidth - 1] for
\* every x, so the word index returned lies in the row that y determines.
C27_ColumnInsideRow ==
    show_hex_ =>
        \A x \in C27_Xs, y \in ClickYs :
            /\ C27_Column(x, y) \in 0 .. (row_width_ - 1)
            /\ CDiv(pixelToWord("Data", x, y), row_width_) = CDiv(y, font_height_)

\* C27 amended: the word column is in [0, rowWidth]; it is below rowWidth for
\* every x left of the right edge of the last word's rectangle, and it is
\* rowWidth at the right end of the clamped range, where the word index
\* returned is the first word of the following row.
C27_ColumnUpToRowWidth ==
    show_hex_ =>
        \A x \in C27_Xs, y \in ClickYs :
            /\ C27_Column(x, y) \in 0 .. row_width_
            /\ x < hexDrawLeft(row_width_ - 1) + hexDrawWidth =>
                  C27_Column(x, y) < row_width_
            /\ x >= vertline2 + font_width_ =>
                  /\ C27_Column(x, y) = row_width_
                  /\ pixelToWord("Data", x, y)
                        = (CDiv(y, font_height_) + 1) * row_width_

\* a press on the first row of an unscrolled view has selected the first
\* word of the second row
C27_Witness ==
    /\ lastOp = "mousePressEvent"
    /\ highlighting_ = "Data"
    /\ normalizedOffset = 0
    /\ selection_start_ = bytesPerRow
    /\ selection_end_ = bytesPerRow + word_width_

\* C28: Ctrl+Down never moves the view backwards, and moves it on by one byte
\* while the byte after the first visible one is inside the document;
\* Ctrl+Up never moves it forwards.
C28_CtrlArrowsMonotone ==
    [][/\ keyCtrlDown =>
             /\ normalizedOffset' >= normalizedOffset
             /\ normalizedOffset + 1 < dataSize =>
                   normalizedOffset' = normalizedOffset + 1
       /\ keyCtrlUp => normalizedOffset' <= normalizedOffset
      ]_vars

\* C29: after clear() has removed the document, the operation that follows
\* neither seeks nor reads the absent document, whatever selection existed
\* before clear().
C29_NoReadAfterClear == [][lastOp = "clear" => ~halted']_vars

\* C30: drag extension is active only between a left press or double click
\* and the next left release: a mouse move while the left button is not held
\* leaves the selection start and end unchanged.
C30_NoDragAfterRelease ==
    [][(~leftButtonDown /\ lastOp' = "mouseMoveEvent") => UNCHANGED selVars]_vars

\* the mouse has moved over a view with a selection, the left button
\* released
C30_Witness ==
    /\ lastOp = "mouseMoveEvent"
    /\ ~leftButtonDown
    /\ hasSelectedText
    /\ selection_start_ > 0
    /\ dataSize > 0

====
